---- MODULE Spec2Model ----
(***************************************************************************)
(* Model of modules/common.py: the rate-limited, retrying HTTP session     *)
(* (class session) and the release pipeline (class releases: type_filter,  *)
(* sort, print).                                                           *)
(***************************************************************************)
EXTENDS Integers, Sequences, FiniteSets, TLC

(***************************************************************************)
(* Bounds of the model.                                                    *)
(***************************************************************************)
MaxRetriesBound == 3
MaxRateLimit == 2
MaxTime == 5
MaxCalls == 2

(***************************************************************************)
(* class session: state.                                                   *)
(***************************************************************************)
VARIABLES
    now,                \* the wall clock, time.time()
    MAX_RETRIES,        \* self.MAX_RETRIES
    GET_RATE_LIMIT,     \* self.GET_RATE_LIMIT
    POST_RATE_LIMIT,    \* self.POST_RATE_LIMIT
    last_request_time,  \* self.last_request_time
    pc,                 \* position of the calling thread inside request()
    method,             \* argument of the running call
    kwargs,             \* keyword arguments of the running call, as (key, value) pairs
    elapsed_time,       \* local of request()
    retries,            \* local of request()
    response,           \* what the call returned
    invocations,        \* transport invocations made by the running call
    outcomes,           \* outcomes of the attempts of the running call
    slept,              \* total time.sleep() requested by the running call
    issued,             \* clock value at which the last transport request was issued
    prevEnd,            \* clock value at which the last transport attempt completed
    prevMethod,         \* method of the call that made that attempt
    calls               \* number of calls made on the instance

sessionVars == <<now, MAX_RETRIES, GET_RATE_LIMIT, POST_RATE_LIMIT, last_request_time,
                 pc, method, kwargs, elapsed_time, retries, response, invocations,
                 outcomes, slept, issued, prevEnd, prevMethod, calls>>

(***************************************************************************)
(* class releases: state.  Releases are objects of a heap; a list holds    *)
(* references (heap indices) to them.                                      *)
(***************************************************************************)
VARIABLES
    heap,       \* the release dictionaries, by reference
    lst,        \* the caller's list object
    phase,      \* "build", "filtered", "sorted" or "printed"
    req,        \* arguments of the call made
    ret,        \* value returned by the call made
    heap0,      \* the release dictionaries as they were when the call was made
    lst0        \* the list as it was when the call was made

pipelineVars == <<heap, lst, phase, req, ret, heap0, lst0>>

vars == <<sessionVars, pipelineVars>>

DEFAULT_TIMEOUT == 60
RETRY_CODES == {429, 503}

Methods == {"GET", "POST"}
StatusCodes == {200, 404, 429, 503}
CallerKwargs == {{}, {<<"timeout", 5>>}}
Response(code) == [kind |-> "response", status_code |-> code]
Exception == [kind |-> "RequestException", status_code |-> 0]
None == [kind |-> "None", status_code |-> 0]
Pending == [kind |-> "pending", status_code |-> 0]
NoTime == -1

\* a slip that would sleep both intervals after a failed attempt
RateLimitOf_Both(m) == GET_RATE_LIMIT + POST_RATE_LIMIT

\* the method-appropriate interval slept after a failed attempt
RateLimitOf(m) ==
    IF m = "GET" THEN GET_RATE_LIMIT
    ELSE IF m = "POST" THEN POST_RATE_LIMIT
    ELSE 0

\* a request() that forgets the rate limiter
PreSleep_None(m, el) == 0

\* the rate-limiter sleep before the first attempt
PreSleep(m, el) ==
    IF m = "GET" /\ el < GET_RATE_LIMIT THEN GET_RATE_LIMIT - el
    ELSE IF m = "POST" /\ el < POST_RATE_LIMIT THEN POST_RATE_LIMIT - el
    ELSE 0

\* an off-by-one loop test
LoopCond_OffByOne == retries <= MAX_RETRIES

\* the test of the while loop
LoopCond == retries < MAX_RETRIES

NoRequest == [type |-> "none", s |-> <<>>, e |-> 0, FILTERS |-> <<>>, RULES |-> <<>>]

\* no release has been produced yet
PipelineIdle ==
    /\ heap = <<>>
    /\ lst = <<>>
    /\ phase = "build"
    /\ req = NoRequest
    /\ ret = <<>>
    /\ heap0 = <<>>
    /\ lst0 = <<>>

SessionInit ==
    /\ now = MaxRateLimit
    /\ MAX_RETRIES \in 1..MaxRetriesBound
    /\ GET_RATE_LIMIT \in 1..MaxRateLimit
    /\ POST_RATE_LIMIT \in 1..MaxRateLimit
    /\ last_request_time = 0
    /\ pc = "idle"
    /\ method = "GET"
    /\ kwargs = {}
    /\ elapsed_time = 0
    /\ retries = 0
    /\ response = Pending
    /\ invocations = 0
    /\ outcomes = <<>>
    /\ slept = 0
    /\ issued = NoTime
    /\ prevEnd = NoTime
    /\ prevMethod = "GET"
    /\ calls = 0
    /\ PipelineIdle

\* time passes
Tick ==
    /\ now < MaxTime
    /\ now' = now + 1
    /\ UNCHANGED <<MAX_RETRIES, GET_RATE_LIMIT, POST_RATE_LIMIT, last_request_time,
                   pc, method, kwargs, elapsed_time, retries, response, invocations,
                   outcomes, slept, issued, prevEnd, prevMethod, calls>>
    /\ UNCHANGED pipelineVars

\* get()/post() enter request(): default timeout, elapsed time
Call(m, kw) ==
    /\ pc \in {"idle", "done"}
    /\ calls < MaxCalls
    /\ calls' = calls + 1
    /\ method' = m
    /\ kwargs' = IF \E p \in kw : p[1] = "timeout"
                    THEN kw
                    ELSE kw \cup {<<"timeout", DEFAULT_TIMEOUT>>}
    /\ elapsed_time' = now - last_request_time
    /\ response' = Pending
    /\ invocations' = 0
    /\ outcomes' = <<>>
    /\ slept' = 0
    /\ pc' = "limit"
    /\ UNCHANGED <<now, MAX_RETRIES, GET_RATE_LIMIT, POST_RATE_LIMIT, last_request_time,
                   retries, issued, prevEnd, prevMethod>>
    /\ UNCHANGED pipelineVars

\* the rate-limiter sleep, then retries = 0
RateLimit ==
    /\ pc = "limit"
    /\ now' = now + PreSleep(method, elapsed_time)
    /\ slept' = slept + PreSleep(method, elapsed_time)
    /\ retries' = 0
    /\ pc' = "loop"
    /\ UNCHANGED <<MAX_RETRIES, GET_RATE_LIMIT, POST_RATE_LIMIT, last_request_time,
                   method, kwargs, elapsed_time, response, invocations, outcomes,
                   issued, prevEnd, prevMethod, calls>>
    /\ UNCHANGED pipelineVars

\* the loop test holds: the request is handed to the transport
Send ==
    /\ pc = "loop"
    /\ LoopCond
    /\ invocations' = invocations + 1
    /\ issued' = now
    /\ pc' = "inflight"
    /\ UNCHANGED <<now, MAX_RETRIES, GET_RATE_LIMIT, POST_RATE_LIMIT, last_request_time,
                   method, kwargs, elapsed_time, retries, response, outcomes, slept,
                   prevEnd, prevMethod, calls>>
    /\ UNCHANGED pipelineVars

\* the loop test fails: log and return None
GiveUp ==
    /\ pc = "loop"
    /\ ~LoopCond
    /\ response' = None
    /\ pc' = "done"
    /\ UNCHANGED <<now, MAX_RETRIES, GET_RATE_LIMIT, POST_RATE_LIMIT, last_request_time,
                   method, kwargs, elapsed_time, retries, invocations, outcomes, slept,
                   issued, prevEnd, prevMethod, calls>>
    /\ UNCHANGED pipelineVars

\* the transport returns a response with status code
Respond(code) ==
    /\ pc = "inflight"
    /\ last_request_time' = now
    /\ prevEnd' = now
    /\ prevMethod' = method
    /\ outcomes' = Append(outcomes, Response(code))
    /\ IF code \in RETRY_CODES
         THEN /\ retries' = retries + 1
              /\ now' = now + RateLimitOf(method)
              /\ slept' = slept + RateLimitOf(method)
              /\ pc' = "loop"
              /\ UNCHANGED response
         ELSE /\ response' = Response(code)
              /\ pc' = "done"
              /\ UNCHANGED <<retries, now, slept>>
    /\ UNCHANGED <<MAX_RETRIES, GET_RATE_LIMIT, POST_RATE_LIMIT, method, kwargs,
                   elapsed_time, invocations, issued, calls>>
    /\ UNCHANGED pipelineVars

\* the transport raises requests.RequestException
Raise ==
    /\ pc = "inflight"
    /\ prevEnd' = now
    /\ prevMethod' = method
    /\ outcomes' = Append(outcomes, Exception)
    /\ retries' = retries + 1
    /\ now' = now + RateLimitOf(method)
    /\ slept' = slept + RateLimitOf(method)
    /\ pc' = "loop"
    /\ UNCHANGED <<MAX_RETRIES, GET_RATE_LIMIT, POST_RATE_LIMIT, last_request_time,
                   method, kwargs, elapsed_time, response, invocations, issued, calls>>
    /\ UNCHANGED pipelineVars

SessionNext ==
    \/ Tick
    \/ \E m \in Methods, kw \in CallerKwargs : Call(m, kw)
    \/ RateLimit
    \/ Send
    \/ GiveUp
    \/ \E code \in StatusCodes : Respond(code)
    \/ Raise

SpecSession == SessionInit /\ [][SessionNext]_vars

(***************************************************************************)
(* class session: properties.                                              *)
(***************************************************************************)
Retryable(o) == o.kind = "RequestException" \/ o.status_code \in {429, 503}
FinalAttempts == {i \in 1..Len(outcomes) : ~Retryable(outcomes[i])}
IntervalOfCall == IF method = "GET" THEN GET_RATE_LIMIT ELSE POST_RATE_LIMIT

\* C1: a finished call has invoked the transport exactly k times and returned the
\* k-th outcome, k <= MAX_RETRIES being the first attempt with a non-retryable
\* status; without such an attempt it has invoked the transport exactly
\* MAX_RETRIES times and returned None.
C1_RetryContract ==
    pc = "done" =>
        /\ Len(outcomes) = invocations
        /\ IF FinalAttempts # {}
             THEN \E k \in FinalAttempts :
                     /\ \A j \in FinalAttempts : k <= j
                     /\ k <= MAX_RETRIES
                     /\ invocations = k
                     /\ response = outcomes[k]
             ELSE /\ invocations = MAX_RETRIES
                  /\ response = None

\* C1 witness: a call whose first attempt raised, whose second got a retryable
\* status and whose last allowed attempt returned a non-retryable response.
C1_Witness ==
    /\ pc = "done"
    /\ MAX_RETRIES = 3
    /\ invocations = 3
    /\ outcomes[1] = Exception
    /\ outcomes[2] = Response(503)
    /\ response = Response(200)

\* C2: once an attempt has completed, last_request_time is the completion time of
\* the last completed attempt, whatever its outcome.
C2_LastRequestTimeIsLastAttempt ==
    prevEnd # NoTime => last_request_time = prevEnd

\* C3: a transport request of a GET call is issued no earlier than GET_RATE_LIMIT
\* after the completion of the previous transport attempt of the instance (made by
\* a GET call), within one call and across calls.
C3_GetSpacing ==
    (pc = "inflight" /\ method = "GET" /\ prevMethod = "GET" /\ prevEnd # NoTime)
        => issued >= prevEnd + GET_RATE_LIMIT

\* C3 witness: the first attempt of a second GET call, issued exactly
\* GET_RATE_LIMIT after a transport failure that ended the previous GET call.
C3_Witness ==
    /\ pc = "inflight"
    /\ method = "GET"
    /\ prevMethod = "GET"
    /\ calls = 2
    /\ invocations = 1
    /\ prevEnd # NoTime
    /\ last_request_time # prevEnd
    /\ issued = prevEnd + GET_RATE_LIMIT

\* C4 as claimed: a call sleeps at most MAX_RETRIES intervals in total.
C4_SleepBound ==
    slept <= MAX_RETRIES * IntervalOfCall

\* C4 amended: a call sleeps at most MAX_RETRIES + 1 intervals in total, at most one
\* before the first attempt and one after each failed attempt.
C4_SleepBoundAmended ==
    slept <= (MAX_RETRIES + 1) * IntervalOfCall

\* C4 witness: a call that slept a whole interval before its first attempt and one
\* more after each of its MAX_RETRIES failed attempts.
C4_Witness ==
    /\ pc = "done"
    /\ response = None
    /\ slept = (MAX_RETRIES + 1) * IntervalOfCall

(***************************************************************************)
(* class releases: the releases handed over by the scraping adapters.      *)
(***************************************************************************)
MaxReleases == 2
MaxVersions == 2

Range(q) == {q[i] : i \in DOMAIN q}

RECURSIVE TotalVersions(_)
TotalVersions(h) ==
    IF h = <<>> THEN 0 ELSE Len(Head(h).versions) + TotalVersions(Tail(h))

\* a release dictionary; the keys 'type' and 'printsize' are not set yet
Release(title, resolution, size, languages, cached, seeders, seasons, episodes, videos) ==
    [title |-> title, resolution |-> resolution, size |-> size, languages |-> languages,
     cached |-> cached, seeders |-> seeders, source |-> "src", seasons |-> seasons,
     episodes |-> episodes, videos |-> videos, versions |-> <<>>,
     type |-> "absent", printsize |-> "absent"]

\* seasons, episodes and videos of the releases and versions fed to type_filter
FilterShapes ==
    { [seasons |-> {1},    episodes |-> 1, videos |-> 1],
      [seasons |-> {1},    episodes |-> 2, videos |-> 2],
      [seasons |-> {1, 2}, episodes |-> 1, videos |-> 1],
      [seasons |-> {1, 2}, episodes |-> 2, videos |-> 0] }

FilterRelease(sh) ==
    Release("t", 1080, 1500, <<"EN">>, <<>>, 1, sh.seasons, sh.episodes, sh.videos)

\* an adapter appends a release to the list
AddRelease(r, max) ==
    /\ phase = "build"
    /\ Len(heap) < max
    /\ heap' = Append(heap, r)
    /\ lst' = Append(lst, Len(heap) + 1)
    /\ UNCHANGED <<phase, req, ret, heap0, lst0>>
    /\ UNCHANGED sessionVars

\* an adapter appends a version to the release it is producing
AddVersion(v) ==
    /\ phase = "build"
    /\ Len(heap) > 0
    /\ TotalVersions(heap) < MaxVersions
    /\ heap' = [heap EXCEPT ![Len(heap)].versions = Append(@, v)]
    /\ UNCHANGED <<lst, phase, req, ret, heap0, lst0>>
    /\ UNCHANGED sessionVars

(***************************************************************************)
(* releases.type_filter(list, type, s, e)                                  *)
(***************************************************************************)
\* e = 0 stands for every falsy e (None, 0): the code reads e only in `not e`
NoEpisode == 0

\* the (type, s, e) arguments considered
FilterRequests ==
    { [type |-> "movie", s |-> <<>>, e |-> NoEpisode] }
    \cup { [type |-> "show", s |-> s, e |-> e] :
             s \in {<<>>, <<1>>, <<2>>, <<1, 2>>, <<1, 1>>, <<1, 2, 3>>},
             e \in {NoEpisode, 1} }

\* a request in which the third branch is taken for a truthy e
Branch_Swapped(type, s, e) ==
    IF type = "movie" THEN "movie"
    ELSE IF Len(s) > 1 THEN "multi"
    ELSE IF e # NoEpisode THEN "season"
    ELSE "episode"

\* which of the four blocks of type_filter runs
Branch(type, s, e) ==
    IF type = "movie" THEN "movie"
    ELSE IF Len(s) > 1 THEN "multi"
    ELSE IF e = NoEpisode THEN "season"
    ELSE "episode"

\* a multi-season test that drops at half of the seasons missing
Drops_AtHalf(branch, s, x) ==
    IF branch = "movie" THEN x.videos = 0
    ELSE IF branch = "multi"
      THEN 2 * Cardinality(Range(s) \ x.seasons) >= Len(s) \/ x.episodes <= 1
    ELSE IF branch = "season"
      THEN Range(s) \ x.seasons # {} \/ x.episodes <= 1
    ELSE Range(s) \ x.seasons # {} \/ ~(x.episodes = 1)

\* the test under which a release or a version x is removed
\* (len(seasons - set(x['seasons'])) > len(s) / 2 is true division)
Drops(branch, s, x) ==
    IF branch = "movie" THEN x.videos = 0
    ELSE IF branch = "multi"
      THEN 2 * Cardinality(Range(s) \ x.seasons) > Len(s) \/ x.episodes <= 1
    ELSE IF branch = "season"
      THEN Range(s) \ x.seasons # {} \/ x.episodes <= 1
    ELSE Range(s) \ x.seasons # {} \/ ~(x.episodes = 1)

\* a copy-paste slip that tags every survivor "show"
TypeTag_AlwaysShow(branch) == "show"

\* the tag written to release['type']
TypeTag(branch) == IF branch = "movie" THEN "movie" ELSE "show"

\* in the last block the tagging loop is nested inside the removal loop
TagInsideLoop(branch) == branch = "episode"

\* list.remove(x) on a list of values: the first element equal to x goes
RemoveValue(q, x) ==
    LET i == CHOOSE k \in 1..Len(q) : q[k] = x /\ \A j \in 1..(k - 1) : q[j] # x
    IN  SubSeq(q, 1, i - 1) \o SubSeq(q, i + 1, Len(q))

\* list.remove(release) on a list of references: dictionaries compare by value
RemoveRelease(h, q, r) ==
    LET i == CHOOSE k \in 1..Len(q) : h[q[k]] = h[r] /\ \A j \in 1..(k - 1) : h[q[j]] # h[r]
    IN  SubSeq(q, 1, i - 1) \o SubSeq(q, i + 1, Len(q))

\* for version in release['versions'][:]: remove it when the test drops it
RECURSIVE FilterVersions(_, _, _, _, _)
FilterVersions(snapshot, i, versions, branch, s) ==
    IF i > Len(snapshot) THEN versions
    ELSE FilterVersions(snapshot, i + 1,
                        IF Drops(branch, s, snapshot[i])
                          THEN RemoveValue(versions, snapshot[i])
                          ELSE versions,
                        branch, s)

\* for release in list: release['type'] = tag
TagAll(h, q, tag) ==
    [r \in DOMAIN h |-> IF r \in Range(q) THEN [h[r] EXCEPT !.type = tag] ELSE h[r]]

\* for release in list[:]: one iteration per element of the snapshot
RECURSIVE FilterLoop(_, _, _, _, _)
FilterLoop(snapshot, i, st, branch, s) ==
    IF i > Len(snapshot) THEN st
    ELSE LET r == snapshot[i]
             next ==
               IF Drops(branch, s, st.heap[r])
                 THEN [heap |-> st.heap, lst |-> RemoveRelease(st.heap, st.lst, r)]
                 ELSE LET h1 == [st.heap EXCEPT ![r].versions =
                                   FilterVersions(@, 1, @, branch, s)]
                      IN  [heap |-> IF TagInsideLoop(branch)
                                      THEN TagAll(h1, st.lst, TypeTag(branch))
                                      ELSE h1,
                           lst |-> st.lst]
         IN  FilterLoop(snapshot, i + 1, next, branch, s)

\* the heap and the list after type_filter(list, type, s, e)
type_filter(h, q, type, s, e) ==
    LET branch == Branch(type, s, e)
        st == FilterLoop(q, 1, [heap |-> h, lst |-> q], branch, s)
    IN  IF TagInsideLoop(branch)
          THEN st
          ELSE [heap |-> TagAll(st.heap, st.lst, TypeTag(branch)), lst |-> st.lst]

\* a caller runs type_filter on the list; the list itself is returned
TypeFilter(r) ==
    /\ phase = "build"
    /\ LET st == type_filter(heap, lst, r.type, r.s, r.e)
       IN  /\ heap' = st.heap
           /\ lst' = st.lst
           /\ ret' = st.lst
    /\ phase' = "filtered"
    /\ req' = [NoRequest EXCEPT !.type = r.type, !.s = r.s, !.e = r.e]
    /\ heap0' = heap
    /\ lst0' = lst
    /\ UNCHANGED sessionVars

\* the pipeline starts empty, beside a session built with its default arguments
PipelineInit ==
    /\ SessionInit
    /\ MAX_RETRIES = 3
    /\ GET_RATE_LIMIT = 1
    /\ POST_RATE_LIMIT = 1

FilterNext ==
    \/ \E sh \in FilterShapes : AddRelease(FilterRelease(sh), MaxReleases)
    \/ \E sh \in FilterShapes : AddVersion(sh)
    \/ \E r \in FilterRequests : TypeFilter(r)

SpecFilter == PipelineInit /\ [][FilterNext]_vars

(***************************************************************************)
(* releases.type_filter: properties.                                       *)
(***************************************************************************)
Requested == {req.s[i] : i \in DOMAIN req.s}
DuplicateFree == Cardinality(Requested) = Len(req.s)
SingleEpisodeRequest == req.type = "show" /\ Len(req.s) = 1 /\ req.e # 0
Returned == {ret[i] : i \in DOMAIN ret}

\* the items of a returned list: the releases and the versions left in them
ReturnedItems ==
    {heap[r] : r \in Returned}
    \cup UNION {{heap[r].versions[i] : i \in DOMAIN heap[r].versions} : r \in Returned}

\* C5 as claimed: after a single-episode request every returned release and every
\* version left in one has episodes = 1 and no season outside the requested one.
C5_SingleEpisodeOnlySeason ==
    (phase = "filtered" /\ SingleEpisodeRequest) =>
        \A x \in ReturnedItems : x.episodes = 1 /\ x.seasons \subseteq Requested

\* C5 amended: after a single-episode request every returned release and every
\* version left in one has episodes = 1 and a seasons set that contains the
\* requested season.
C5_SingleEpisodeCoversSeason ==
    (phase = "filtered" /\ SingleEpisodeRequest) =>
        \A x \in ReturnedItems : x.episodes = 1 /\ Requested \subseteq x.seasons

\* C5 witness: a single-episode request that returned a release with a version
\* left in it, after dropping another release.
C5_Witness ==
    /\ phase = "filtered"
    /\ SingleEpisodeRequest
    /\ Len(ret) = 1
    /\ Len(lst0) = 2
    /\ Len(heap[ret[1]].versions) = 1
    /\ Len(heap0[ret[1]].versions) = 2

\* the test of the applicable branch, as the claim states it
ClaimedDrop(x) ==
    IF req.type = "movie" THEN x.videos = 0
    ELSE IF Cardinality(Requested) > 1
      THEN 2 * Cardinality(Requested \ x.seasons) > Cardinality(Requested)
           \/ x.episodes <= 1
    ELSE IF req.e = 0
      THEN Requested \ x.seasons # {} \/ x.episodes <= 1
    ELSE Requested \ x.seasons # {} \/ x.episodes # 1

Kept(x) == ~ClaimedDrop(x)
KeptRelease(r) == ~ClaimedDrop(heap0[r])

\* C6: for a duplicate-free request the returned list holds, in input order,
\* exactly the releases the branch's test does not drop, and each returned
\* release holds, in order, exactly its versions the test does not drop.
C6_ExactFilter ==
    (phase = "filtered" /\ DuplicateFree) =>
        /\ ret = SelectSeq(lst0, KeptRelease)
        /\ \A r \in Returned : heap[r].versions = SelectSeq(heap0[r].versions, Kept)

\* C6 witness: a multi-season request that kept the second of two releases and,
\* in it, the second of two versions.
C6_Witness ==
    /\ phase = "filtered"
    /\ req.s = <<1, 2, 3>>
    /\ lst0 = <<1, 2>>
    /\ ret = <<2>>
    /\ Len(heap0[2].versions) = 2
    /\ heap[2].versions = <<heap0[2].versions[2]>>

\* C7: every returned release carries the resolved type, "movie" for a movie
\* lookup and "show" for every other request.
C7_SurvivorsTagged ==
    phase = "filtered" =>
        \A r \in Returned : heap[r].type = (IF req.type = "movie" THEN "movie" ELSE "show")

\* C7 witness: a single-episode request whose last release was removed after the
\* only survivor had been processed.
C7_Witness ==
    /\ phase = "filtered"
    /\ SingleEpisodeRequest
    /\ lst0 = <<1, 2>>
    /\ ret = <<1>>
    /\ heap[1].type = "show"

\* C10: a release the call removes from the list is left as it was.
C10_RemovedUntouched ==
    phase = "filtered" =>
        \A r \in {lst0[i] : i \in DOMAIN lst0} \ Returned : heap[r] = heap0[r]

(***************************************************************************)
(* releases.sort(server, list)                                             *)
(***************************************************************************)
MaxSortLen == 3

\* the fields of the releases fed to sort
SortShapes ==
    [seeders : {1, 2}, resolution : {720, 1080}, episodes : {1, 2},
     languages : {<<"EN">>, <<"DE">>}]

SortRelease(sh) ==
    Release("t", sh.resolution, 1500, sh.languages, <<>>, sh.seeders, {1}, sh.episodes, 1)

\* the FILTERS and RULES expressions of the servers considered
Servers ==
    { [FILTERS |-> <<>>, RULES |-> <<>>],
      [FILTERS |-> <<>>, RULES |-> <<"release['seeders']", "release['resolution']">>],
      [FILTERS |-> <<"'EN' in release['languages']">>,
       RULES |-> <<"release['seeders']", "release['resolution']">>],
      [FILTERS |-> <<"'EN' in release['languages']", "release['seeders'] > 1">>,
       RULES |-> <<"release['resolution']">>] }

\* eval(filter) with the release in scope
EvalFilter(expr, release) ==
    IF expr = "'EN' in release['languages']"
      THEN \E i \in DOMAIN release.languages : release.languages[i] = "EN"
    ELSE release.seeders > 1

\* eval(rule) with the release in scope
EvalRule(expr, release) ==
    IF expr = "release['seeders']" THEN release.seeders ELSE release.resolution

\* the sort key: x['episodes'] for the first sort, eval(rule) for the others
SortKey(key, release) ==
    IF key = "episodes" THEN release.episodes ELSE EvalRule(key, release)

\* a descending sort that puts an element before the elements it ties with
InsertDesc_Unstable(h, sorted, r, key) ==
    LET n == Cardinality({i \in DOMAIN sorted :
                            SortKey(key, h[sorted[i]]) > SortKey(key, h[r])})
    IN  SubSeq(sorted, 1, n) \o <<r>> \o SubSeq(sorted, n + 1, Len(sorted))

\* list.sort(key=..., reverse=True) is stable: an element goes behind every
\* element whose key is not smaller
InsertDesc(h, sorted, r, key) ==
    LET n == Cardinality({i \in DOMAIN sorted :
                            SortKey(key, h[sorted[i]]) >= SortKey(key, h[r])})
    IN  SubSeq(sorted, 1, n) \o <<r>> \o SubSeq(sorted, n + 1, Len(sorted))

RECURSIVE SortDesc(_, _, _, _)
SortDesc(h, q, sorted, key) ==
    IF q = <<>> THEN sorted
    ELSE SortDesc(h, Tail(q), InsertDesc(h, sorted, Head(q), key), key)

\* for filter in server.FILTERS: list = [release for release in list if eval(filter)]
RECURSIVE ApplyFilters(_, _, _)
ApplyFilters(h, q, filters) ==
    IF filters = <<>> THEN q
    ELSE LET Passes(r) == EvalFilter(Head(filters), h[r])
         IN  ApplyFilters(h, SelectSeq(q, Passes), Tail(filters))

\* for rule in server.RULES: list.sort(key=eval(rule), reverse=True)
RECURSIVE ApplyRules(_, _, _)
ApplyRules(h, q, rules) ==
    IF rules = <<>> THEN q
    ELSE ApplyRules(h, SortDesc(h, q, <<>>, Head(rules)), Tail(rules))

\* the list returned by sort(server, list)
sort(h, server, q) ==
    ApplyRules(h, SortDesc(h, ApplyFilters(h, q, server.FILTERS), <<>>, "episodes"),
               server.RULES)

\* a caller ranks the list; without FILTERS the caller's own list object is the
\* one sorted in place, with FILTERS a new list is
Sort(server) ==
    /\ phase = "build"
    /\ ret' = sort(heap, server, lst)
    /\ lst' = IF server.FILTERS = <<>> THEN sort(heap, server, lst) ELSE lst
    /\ phase' = "sorted"
    /\ req' = [NoRequest EXCEPT !.FILTERS = server.FILTERS, !.RULES = server.RULES]
    /\ heap0' = heap
    /\ lst0' = lst
    /\ UNCHANGED heap
    /\ UNCHANGED sessionVars

SortNext ==
    \/ \E sh \in SortShapes : AddRelease(SortRelease(sh), MaxSortLen)
    \/ \E server \in Servers : Sort(server)

SpecSort == PipelineInit /\ [][SortNext]_vars

(***************************************************************************)
(* releases.sort: properties.                                              *)
(***************************************************************************)
PassesAll(r) == \A i \in DOMAIN req.FILTERS : EvalFilter(req.FILTERS[i], heap0[r])
InputPosition(r) == CHOOSE i \in DOMAIN lst0 : lst0[i] = r

\* a ranks before b: greater on rule k, or equal on it and before b on the rules
\* below; below the first rule, more episodes, or as many and earlier in the input
RECURSIVE RanksBefore(_, _, _)
RanksBefore(a, b, k) ==
    IF k = 0
      THEN \/ heap0[a].episodes > heap0[b].episodes
           \/ /\ heap0[a].episodes = heap0[b].episodes
              /\ InputPosition(a) < InputPosition(b)
      ELSE \/ EvalRule(req.RULES[k], heap0[a]) > EvalRule(req.RULES[k], heap0[b])
           \/ /\ EvalRule(req.RULES[k], heap0[a]) = EvalRule(req.RULES[k], heap0[b])
              /\ RanksBefore(a, b, k - 1)

\* C8: sort returns exactly the releases passing every filter, each once, ordered
\* by the last rule descending, then the preceding rules back to the first, then
\* episodes descending, then input order.
C8_RankedOrder ==
    phase = "sorted" =>
        /\ Range(ret) = {r \in Range(lst0) : PassesAll(r)}
        /\ Cardinality(Range(ret)) = Len(ret)
        /\ \A i, j \in DOMAIN ret : i < j => RanksBefore(ret[i], ret[j], Len(req.RULES))

\* C8 witness: two rules; the release ranked first and the one ranked last tie on
\* the last rule and were in the opposite order in the input, and the two ranked
\* last tie on every rule and on episodes.
C8_Witness ==
    /\ phase = "sorted"
    /\ Len(req.RULES) = 2
    /\ req.FILTERS # <<>>
    /\ Len(lst0) = 3
    /\ ret = <<3, 1, 2>>
    /\ heap[3].resolution = heap[1].resolution
    /\ heap[3].seeders > heap[1].seeders
    /\ heap[1].seeders = heap[2].seeders
    /\ heap[1].resolution = heap[2].resolution
    /\ heap[1].episodes = heap[2].episodes

(***************************************************************************)
(* releases.print(list)                                                    *)
(***************************************************************************)
MaxPrintLen == 2

\* the fields of the releases fed to print; size is in thousandths
PrintShapes ==
    [title : {"a", "bbb"}, size : {125, 1500, 2256, 10000},
     cached : {<<>>, <<"RD", "AD">>}, seeders : {5, 12}]

PrintRelease(sh) ==
    Release(sh.title, 1080, sh.size, <<"EN">>, sh.cached, sh.seeders, {1}, 1, 1)

Digit(d) ==
    CASE d = 0 -> "0" [] d = 1 -> "1" [] d = 2 -> "2" [] d = 3 -> "3" [] d = 4 -> "4"
      [] d = 5 -> "5" [] d = 6 -> "6" [] d = 7 -> "7" [] d = 8 -> "8" [] d = 9 -> "9"

\* str(n) of a non-negative integer
RECURSIVE Str(_)
Str(n) == IF n < 10 THEN Digit(n) ELSE Str(n \div 10) \o Digit(n % 10)

\* round(size, 2), in hundredths: half rounds to even (the sizes considered that
\* end in a half are exact binary fractions)
Round2(size) ==
    LET q == size \div 10
        r == size % 10
    IN  IF r < 5 THEN q
        ELSE IF r > 5 THEN q + 1
        ELSE IF q % 2 = 0 THEN q ELSE q + 1

\* str(x) of a float x given in hundredths
StrFloat(x) ==
    Str(x \div 100) \o "." \o Digit((x \div 10) % 10)
        \o (IF x % 10 = 0 THEN "" ELSE Digit(x % 10))

\* '/'.join(q)
RECURSIVE Join(_)
Join(q) ==
    IF q = <<>> THEN ""
    ELSE IF Len(q) = 1 THEN q[1]
    ELSE q[1] \o "/" \o Join(Tail(q))

\* ' ' * n
RECURSIVE Spaces(_)
Spaces(n) == IF n <= 0 THEN "" ELSE " " \o Spaces(n - 1)

\* a print that stores the rounded size back into the release
WithPrintsize_RoundsSize(release) ==
    [release EXCEPT !.size = 10 * Round2(@), !.printsize = StrFloat(Round2(release.size))]

\* release['printsize'] = str(round(release['size'], 2))
WithPrintsize(release) ==
    [release EXCEPT !.printsize = StrFloat(Round2(release.size))]

Longest(widths) == IF widths = {} THEN 0 ELSE CHOOSE w \in widths : \A v \in widths : v <= w

Padded(text, width) == text \o Spaces(width - Len(text))

\* the heap and the lines after print(list)
print(h, q) ==
    LET h1 == [r \in DOMAIN h |-> IF r \in Range(q) THEN WithPrintsize(h[r]) ELSE h[r]]
        longest_cached == Longest({Len(Join(h1[r].cached)) : r \in Range(q)})
        longest_title == Longest({Len(h1[r].title) : r \in Range(q)})
        longest_res == Longest({Len(Str(h1[r].resolution)) : r \in Range(q)})
        longest_size == Longest({Len(h1[r].printsize) : r \in Range(q)})
        longest_langs == Longest({Len(Join(h1[r].languages)) : r \in Range(q)})
        longest_seeders == Longest({Len(Str(h1[r].seeders)) : r \in Range(q)})
        longest_index == Longest({Len(Str(i)) : i \in DOMAIN q})
        Line(i) ==
            LET release == h1[q[i]]
            IN  Padded(Str(i) \o ") ", longest_index + 2)
                \o "resolution: " \o Padded(Str(release.resolution), longest_res)
                \o " | languages: " \o Padded(Join(release.languages), longest_langs)
                \o " | title: " \o Padded(release.title, longest_title)
                \o " | size: " \o Padded(release.printsize, longest_size)
                \o " | cached: " \o Padded(Join(release.cached), longest_cached)
                \o " | seeders: " \o Padded(Str(release.seeders), longest_seeders)
                \o " | source: " \o release.source
    IN  [heap |-> h1, strings |-> [i \in DOMAIN q |-> Line(i)]]

\* a caller renders the list
RenderList ==
    /\ phase = "build"
    /\ heap' = print(heap, lst).heap
    /\ ret' = print(heap, lst).strings
    /\ phase' = "printed"
    /\ heap0' = heap
    /\ lst0' = lst
    /\ UNCHANGED <<lst, req>>
    /\ UNCHANGED sessionVars

PrintNext ==
    \/ \E sh \in PrintShapes : AddRelease(PrintRelease(sh), MaxPrintLen)
    \/ RenderList

SpecPrint == PipelineInit /\ [][PrintNext]_vars

(***************************************************************************)
(* releases.print: properties.                                             *)
(***************************************************************************)
\* C9 as claimed: print leaves the list and every field of every release as
\* they were.
C9_PrintReadOnly ==
    phase = "printed" => (lst = lst0 /\ heap = heap0)

\* str(round(size, 2)) of the sizes considered, as Python prints them
RenderedSize(size) ==
    CASE size = 125 -> "0.12" [] size = 1500 -> "1.5" [] size = 2256 -> "2.26"
      [] size = 10000 -> "10.0"

\* C9 amended: print leaves the list and every field of every release as they
\* were, except the printsize field of each release of the list, which it sets to
\* the string of the size rounded to 2 decimals.
C9_PrintOnlySetsPrintsize ==
    phase = "printed" =>
        /\ lst = lst0
        /\ DOMAIN heap = DOMAIN heap0
        /\ \A r \in DOMAIN heap :
              /\ [heap[r] EXCEPT !.printsize = "absent"] = heap0[r]
              /\ heap[r].printsize = RenderedSize(heap0[r].size)

\* C9 witness: two releases printed, one of them with a size that rounding changes.
C9_Witness ==
    /\ phase = "printed"
    /\ Len(ret) = 2
    /\ heap0[1].size = 2256
    /\ heap0[1].printsize = "absent"
    /\ heap[1].printsize = "2.26"

====
